---- MODULE Spec2Model ----
(***************************************************************************)
(* ChefGenius (src/App.tsx): the App component as a state machine.         *)
(* React state cells are the variables; every event handler, promise       *)
(* continuation and effect is an action.  An action covers the handler,    *)
(* the re-render it causes and the effects that re-render runs.            *)
(***************************************************************************)
EXTENDS Integers, Sequences, FiniteSets, TLC

(* ----------------------------- bounds ---------------------------------- *)
\* recipes created in one session (crypto.randomUUID calls)
MaxIds == 2
\* generateRecipe / visualizeRecipe / getUserMedia calls in flight at once
MaxPending == 2
\* narrations (speech requests or playing buffers) alive at once
MaxNarrations == 2
\* entries of the shopping list
MaxItems == 2
\* how far past a short recipe's last step the index is followed
MaxStepIndex == 3
\* the last reading of the clock that is followed (Date.now)
MaxTime == 3

(* ----------------------------- values ---------------------------------- *)
\* JavaScript null in a cell that holds a recipe: useState<Recipe | null>(null)
Null == [null |-> TRUE]

IsNull(v) == v = Null

\* obj.key of a JavaScript object: the key may be absent (undefined)
Has(obj, key) == key \in DOMAIN obj

\* { ...obj, key: val }
With(obj, key, val) ==
    [k \in DOMAIN obj \cup {key} |-> IF k = key THEN val ELSE obj[k]]

\* an object without one of its keys
Without(obj, key) == [k \in DOMAIN obj \ {key} |-> obj[k]]

(* Strings the code inspects are sequences of fragments; the fragment      *)
(* "by praj" is what String.includes('by praj') looks for.                 *)
BY_PRAJ == "by praj"

Includes(str, frag) == \E i \in 1..Len(str) : str[i] = frag

\* `${title} (by praj)`
TagSuffix == <<" (", BY_PRAJ, ")">>

\* String.prototype.trim: drop leading and trailing white space
RECURSIVE TrimStart(_)
TrimStart(s) ==
    IF s # <<>> /\ Head(s) = " " THEN TrimStart(Tail(s)) ELSE s

RECURSIVE TrimEnd(_)
TrimEnd(s) ==
    IF s # <<>> /\ s[Len(s)] = " " THEN TrimEnd(SubSeq(s, 1, Len(s) - 1)) ELSE s

\* the text as typed, with no trim
AsTyped(s) == s

Trim(s) == TrimEnd(TrimStart(s))

(* ------------------------------ JSON ----------------------------------- *)
(* A JSON text is a sequence of tokens.  JSONstringify writes an array as  *)
(* "[" v1 "," v2 ... "]"; JSONparse reads it back or reports a SyntaxError *)
(* ([ok |-> FALSE]).  A text of one value token is that value.             *)
LBr == [tok |-> "["]
RBr == [tok |-> "]"]
Comma == [tok |-> ","]
ValTok(v) == [tok |-> "value", v |-> v]

RECURSIVE JoinTokens(_)
JoinTokens(arr) ==
    IF arr = <<>> THEN <<>>
    ELSE IF Len(arr) = 1 THEN <<ValTok(arr[1])>>
    ELSE <<ValTok(arr[1]), Comma>> \o JoinTokens(Tail(arr))

JSONstringify(arr) == <<LBr>> \o JoinTokens(arr) \o <<RBr>>

\* the elements between the brackets: value (, value)*
RECURSIVE ParseElements(_)
ParseElements(toks) ==
    IF toks = <<>> THEN [ok |-> FALSE, v |-> <<>>]
    ELSE IF toks[1].tok # "value" THEN [ok |-> FALSE, v |-> <<>>]
    ELSE IF Len(toks) = 1 THEN [ok |-> TRUE, v |-> <<toks[1].v>>]
    ELSE IF toks[2].tok # "," THEN [ok |-> FALSE, v |-> <<>>]
    ELSE LET rest == ParseElements(SubSeq(toks, 3, Len(toks)))
         IN  [ok |-> rest.ok, v |-> <<toks[1].v>> \o rest.v]

JSONparse(text) ==
    IF Len(text) = 1 /\ text[1].tok = "value" THEN [ok |-> TRUE, v |-> text[1].v]
    ELSE IF Len(text) < 2 THEN [ok |-> FALSE, v |-> <<>>]
    ELSE IF text[1] # LBr \/ text[Len(text)] # RBr THEN [ok |-> FALSE, v |-> <<>>]
    ELSE IF Len(text) = 2 THEN [ok |-> TRUE, v |-> <<>>]
    ELSE ParseElements(SubSeq(text, 2, Len(text) - 1))

\* localStorage.getItem: null for an absent key, else the stored string
Absent == [present |-> FALSE, text |-> <<>>]
Item(text) == [present |-> TRUE, text |-> text]

\* if (stored): a string is truthy unless it is null or empty
Truthy(item) == item.present /\ item.text # <<>>

(* ----------------------------- recipes --------------------------------- *)
RequiredFields ==
    {"title", "description", "ingredients", "instructions", "prepTime",
     "servings", "nutrition"}

\* an instruction list of n steps
Steps(n) == [i \in 1..n |-> "step"]

\* a response object that carries every field of the response schema
FullData(title, n) ==
    [title |-> title, description |-> "d", prepTime |-> "10 min",
     servings |-> "2", nutrition |-> "n", ingredients |-> <<"egg">>,
     instructions |-> Steps(n)]

\* the number of instruction steps of a recipe that has the field
NSteps(recipe) == Len(recipe.instructions)

(* ------------------------- what the world sends ------------------------ *)
Ramen == <<"Ramen">>
RamenTagged == <<"Ramen", " (", BY_PRAJ, ")">>
Stew == <<"Stew">>

\* response.text of a generation response: a JSON text, possibly not one
GarbageText == <<LBr>>
EmptyText == <<>>

\* an answer that carries an identifier and a timestamp of its own
ForeignIdObject ==
    With(With(FullData(Stew, 1), "id", 101), "createdAt", 0)

\* the objects the generation service answers with
CompleteObjects ==
    {FullData(Ramen, 2), FullData(RamenTagged, 1), FullData(Stew, 1),
     FullData(Stew, 0), ForeignIdObject}

PartialObjects == {Without(FullData(Ramen, 1), f) : f \in RequiredFields}

\* how ai.models.generateContent settles for generateRecipe
Rejected == [kind |-> "rejected"]
Answer(text) == [kind |-> "text", text |-> text]

GoodResponses == {Answer(<<ValTok(o)>>) : o \in CompleteObjects}

BadResponses ==
    {Rejected, Answer(EmptyText), Answer(GarbageText)}
    \cup {Answer(<<ValTok(o)>>) : o \in PartialObjects}

Responses == GoodResponses \cup BadResponses

\* recipes a previous session left in the store
\* (their identifiers were drawn then: no identifier of this session equals them)
StoredA == With(With(FullData(RamenTagged, 1), "id", 101), "createdAt", 0)
StoredB ==
    With(With(With(FullData(Stew, 2), "id", 102), "createdAt", 0),
         "imageUrl", "data:b")

\* the collections a previous session may have saved
StoredCollections == {<<>>, <<StoredA>>, <<StoredB, StoredA>>}

\* what localStorage may hold under chefgenius_recipes_v3 at start: nothing,
\* a saved collection, or a text cut short
InitialRecipeItems ==
    {Absent, Item(<<LBr, ValTok(StoredA)>>)}
    \cup {Item(JSONstringify(c)) : c \in StoredCollections}

\* shopping items the user types (white space is a fragment of its own)
ItemTexts == {<<>>, <<" ">>, <<"Milk">>, <<" ", "Eggs", " ">>}

\* a shopping list with one text twice
StoredShoppingList == <<<<"Milk">>, <<"Eggs">>, <<"Milk">>>>

\* the shopping lists a previous session may have saved
StoredLists == {<<<<"Milk">>>>, StoredShoppingList}

\* what localStorage may hold under chefgenius_shopping_v3 at start
InitialShoppingItems ==
    {Absent, Item(<<LBr, ValTok(<<"Milk">>), Comma>>)}
    \cup {Item(JSONstringify(l)) : l \in StoredLists}

Prompts == {<<>>, <<"spicy ramen">>}

\* customDish.title as typed
DishTitles == {<<>>, Ramen, Stew}

\* capturedImage: null, a frame of the live video, or the blank canvas
NoImage == "null"
FrameImage == "data:image/jpeg;base64,frame"
BlankImage == "data:,"

(* ------------------------------ state ---------------------------------- *)
VARIABLES
    phase,                \* "constructed" | "mounted" | "ready" | "crashed"
    loaded,               \* the state updates the load effect queued
    view,                 \* 'kitchen' | 'pantry' | 'shopping'
    prompt,
    isGenerating,
    genPending,           \* generateRecipe calls awaiting the service
    genIssued,            \* when each of them was issued, oldest first
    isVisualizing,
    visPending,           \* visualizeRecipe calls awaiting the service
    visRequested,         \* the recipe each of them depicts (its id)
    currentRecipe,
    savedRecipes,
    storeRecipes,         \* localStorage['chefgenius_recipes_v3']
    manualShoppingItems,
    newItemText,
    storeItems,           \* localStorage['chefgenius_shopping_v3']
    showAddDishModal,
    customDish,           \* its title; desc and ingredients decide nothing
    isCameraOpen,
    capturedImage,
    camPending,           \* getUserMedia calls awaiting the user's answer
    srcObject,            \* of the mounted <video>: "null" | "live"
    liveStreams,          \* media streams whose tracks were never stopped
    cookingMode,
    currentStep,
    isSpeaking,
    narrations,           \* speech in flight, oldest first: "pending" | "playing"
    nextId,               \* the next crypto.randomUUID()
    now,                  \* the clock: what Date.now() returns
    last                  \* the step just taken: handler, alert shown, input

navVars == <<view, prompt>>
genVars == <<isGenerating, genPending, genIssued>>
visVars == <<isVisualizing, visPending, visRequested>>
libVars == <<savedRecipes, storeRecipes>>
shopVars == <<manualShoppingItems, newItemText, storeItems>>
dishVars == <<showAddDishModal, customDish>>
camVars == <<isCameraOpen, capturedImage, camPending, srcObject, liveStreams>>
cookVars == <<cookingMode, currentStep>>
speechVars == <<isSpeaking, narrations>>

vars ==
    <<phase, loaded, navVars, genVars, visVars, currentRecipe, libVars,
      shopVars, dishVars, camVars, cookVars, speechVars, nextId, now, last>>

NoAlert == "none"
GenerationAlert == "Error generating recipe."
CameraAlert == "Could not access camera."

\* the record kept in `last`
Event(op, alert, input) == [op |-> op, alert |-> alert, input |-> input]

NoInput == <<>>

\* nothing queued by the load effect
NotLoaded == [set |-> FALSE, v |-> <<>>]
Queued(v) == [set |-> TRUE, v |-> v]

Init ==
    /\ phase = "constructed"
    /\ loaded = [recipes |-> NotLoaded, items |-> NotLoaded]
    /\ view = "kitchen"
    /\ prompt = <<>>
    /\ isGenerating = FALSE
    /\ genPending = 0
    /\ genIssued = <<>>
    /\ isVisualizing = FALSE
    /\ visPending = 0
    /\ visRequested = <<>>
    /\ currentRecipe = Null
    /\ savedRecipes = <<>>
    /\ storeRecipes \in InitialRecipeItems
    /\ manualShoppingItems = <<>>
    /\ newItemText = <<>>
    /\ storeItems \in InitialShoppingItems
    /\ showAddDishModal = FALSE
    /\ customDish = <<>>
    /\ isCameraOpen = FALSE
    /\ capturedImage = NoImage
    /\ camPending = 0
    /\ srcObject = "null"
    /\ liveStreams = 0
    /\ cookingMode = Null
    /\ currentStep = 0
    /\ isSpeaking = FALSE
    /\ narrations = <<>>
    /\ nextId = 1
    /\ now = 1
    /\ last = Event("construct", NoAlert, NoInput)

(* ------------------------------ render --------------------------------- *)
\* the JSX reads a field of undefined: React unmounts the whole tree
RenderThrows ==
    \/ /\ view = "kitchen"
       /\ ~IsNull(currentRecipe)
       /\ ~Has(currentRecipe, "nutrition") \/ ~Has(currentRecipe, "ingredients")
    \/ /\ view = "pantry"
       /\ \E i \in 1..Len(savedRecipes) : ~Has(savedRecipes[i], "title")
    \/ /\ ~IsNull(cookingMode)
       /\ ~Has(cookingMode, "instructions")

\* the phase after a handler's re-render
Rendered(throws) == IF throws THEN "crashed" ELSE "ready"

\* the <video> element exists only while the overlay shows no still
VideoMounted == isCameraOpen /\ capturedImage = NoImage

\* an overlay (fixed inset-0) covers the page and takes every click
UiFree ==
    /\ phase = "ready"
    /\ ~showAddDishModal
    /\ ~isCameraOpen
    /\ IsNull(cookingMode)

(* --------------------------- persistence ------------------------------- *)
\* the load effect's read of one key: the setState it queues, if any
LoadStored(item) ==
    IF ~Truthy(item) THEN NotLoaded
    ELSE LET parsed == JSONparse(item.text)
         IN  IF parsed.ok THEN Queued(parsed.v) ELSE NotLoaded

\* the effect on [savedRecipes]
PersistRecipes(recipes) == Item(JSONstringify(recipes))

\* the effect writing the list of the render before
PersistItemsStale(items) == Item(JSONstringify(manualShoppingItems))

\* the effect on [manualShoppingItems]
PersistItems(items) == Item(JSONstringify(items))

\* the effects in another order: the two writes before the read
MountEffectsPersistFirst ==
    /\ phase = "constructed"
    /\ storeRecipes' = PersistRecipes(savedRecipes)
    /\ storeItems' = PersistItems(manualShoppingItems)
    /\ loaded' = [recipes |-> LoadStored(storeRecipes'),
                  items |-> LoadStored(storeItems')]
    /\ phase' = "mounted"
    /\ last' = Event("mount", NoAlert,
                     [recipes |-> storeRecipes, items |-> storeItems])
    /\ UNCHANGED <<now, navVars, genVars, visVars, currentRecipe, savedRecipes,
                   manualShoppingItems, newItemText, dishVars, camVars,
                   cookVars, speechVars, nextId>>

\* first commit: the three effects run in order, on the initial state
MountEffects ==
    /\ phase = "constructed"
    /\ loaded' = [recipes |-> LoadStored(storeRecipes),
                  items |-> LoadStored(storeItems)]
    /\ storeRecipes' = PersistRecipes(savedRecipes)
    /\ storeItems' = PersistItems(manualShoppingItems)
    /\ phase' = "mounted"
    /\ last' = Event("mount", NoAlert,
                     [recipes |-> storeRecipes, items |-> storeItems])
    /\ UNCHANGED <<now, navVars, genVars, visVars, currentRecipe, savedRecipes,
                   manualShoppingItems, newItemText, dishVars, camVars,
                   cookVars, speechVars, nextId>>

\* the re-render with what the load effect queued, and the effects it runs
StartupCommit ==
    /\ phase = "mounted"
    /\ savedRecipes' =
           IF loaded.recipes.set THEN loaded.recipes.v ELSE savedRecipes
    /\ storeRecipes' =
           IF loaded.recipes.set THEN PersistRecipes(savedRecipes')
           ELSE storeRecipes
    /\ manualShoppingItems' =
           IF loaded.items.set THEN loaded.items.v ELSE manualShoppingItems
    /\ storeItems' =
           IF loaded.items.set THEN PersistItems(manualShoppingItems')
           ELSE storeItems
    /\ loaded' = [recipes |-> NotLoaded, items |-> NotLoaded]
    /\ last' = Event("startup", NoAlert, last.input)
    /\ UNCHANGED <<now, navVars, genVars, visVars, currentRecipe, newItemText,
                   dishVars, camVars, cookVars, speechVars, nextId>>
    /\ phase' = Rendered(RenderThrows')

(* ------------------------------- clock --------------------------------- *)
\* time passes: a later Date.now() reads a later value
Tick ==
    /\ now < MaxTime
    /\ now' = now + 1
    /\ last' = Event("tick", NoAlert, NoInput)
    /\ UNCHANGED <<phase, loaded, navVars, genVars, visVars, currentRecipe,
                   libVars, shopVars, dishVars, camVars, cookVars, speechVars,
                   nextId>>

(* ---------------------------- navigation ------------------------------- *)
SetView(v) ==
    /\ UiFree
    /\ v # view
    /\ view' = v
    /\ last' = Event("setView", NoAlert, NoInput)
    /\ UNCHANGED <<now, loaded, prompt, genVars, visVars, currentRecipe, libVars,
                   shopVars, dishVars, camVars, cookVars, speechVars, nextId>>
    /\ phase' = Rendered(RenderThrows')

SetPrompt(p) ==
    /\ UiFree
    /\ view = "kitchen"
    /\ p # prompt
    /\ prompt' = p
    /\ last' = Event("setPrompt", NoAlert, NoInput)
    /\ UNCHANGED <<now, loaded, view, genVars, visVars, currentRecipe, libVars,
                   shopVars, dishVars, camVars, cookVars, speechVars, nextId>>
    /\ phase' = Rendered(RenderThrows')

(* ---------------------------- generation ------------------------------- *)
\* a sequence without its i-th element
RemoveAt(seq, i) ==
    [k \in 1..(Len(seq) - 1) |-> IF k < i THEN seq[k] ELSE seq[k + 1]]

\* every call in flight can still draw an identifier
IdsLeft == nextId + genPending <= MaxIds

\* generateRecipe up to its await
GenerateRecipe(op) ==
    /\ genPending < MaxPending
    /\ IdsLeft
    /\ isGenerating' = TRUE
    /\ currentRecipe' = Null
    /\ isCameraOpen' = FALSE
    /\ srcObject' = "null"
    /\ genPending' = genPending + 1
    /\ genIssued' = Append(genIssued, now)
    /\ last' = Event(op, NoAlert, NoInput)
    /\ UNCHANGED <<now, loaded, navVars, visVars, libVars, shopVars, dishVars,
                   capturedImage, camPending, liveStreams, cookVars,
                   speechVars, nextId>>
    /\ phase' = Rendered(RenderThrows')

\* the Generate button: disabled={isGenerating || !prompt}
GenerateClick ==
    /\ UiFree
    /\ view = "kitchen"
    /\ ~isGenerating
    /\ prompt # <<>>
    /\ GenerateRecipe("generate")

\* response.text || '{}'
TextOrEmptyObject(text) == IF text = <<>> THEN <<ValTok(<<>>)>> ELSE text

\* { ...extra, ...obj }: the keys of obj win over those of extra
SpreadOver(extra, obj) ==
    [k \in DOMAIN extra \cup DOMAIN obj |->
        IF k \in DOMAIN obj THEN obj[k] ELSE extra[k]]

\* the spread written last: { title, id, createdAt, ...data }
TryRecipeSpreadLast(resp, id, at) ==
    IF resp.kind = "rejected" THEN [threw |-> TRUE, recipe |-> Null]
    ELSE LET parsed == JSONparse(TextOrEmptyObject(resp.text))
         IN  IF ~parsed.ok THEN [threw |-> TRUE, recipe |-> Null]
             ELSE IF ~Has(parsed.v, "title") THEN [threw |-> TRUE, recipe |-> Null]
             ELSE LET data == parsed.v
                      finalTitle ==
                          IF Includes(data.title, BY_PRAJ) THEN data.title
                          ELSE data.title \o TagSuffix
                  IN  [threw |-> FALSE,
                       recipe |->
                           SpreadOver([title |-> finalTitle, id |-> id,
                                       createdAt |-> at], data)]

\* what the try block computes from a response: the recipe, or a throw
TryRecipe(resp, id, at) ==
    IF resp.kind = "rejected" THEN [threw |-> TRUE, recipe |-> Null]
    ELSE LET parsed == JSONparse(TextOrEmptyObject(resp.text))
         IN  IF ~parsed.ok THEN [threw |-> TRUE, recipe |-> Null]
             ELSE IF ~Has(parsed.v, "title") THEN [threw |-> TRUE, recipe |-> Null]
             ELSE LET data == parsed.v
                      finalTitle ==
                          IF Includes(data.title, BY_PRAJ) THEN data.title
                          ELSE data.title \o TagSuffix
                  IN  [threw |-> FALSE,
                       recipe |->
                           SpreadOver(data, [title |-> finalTitle, id |-> id,
                                             createdAt |-> at])]

\* the record kept of a settled generation: when the request was issued
\* and what was current when its answer came
Settled(alert, resp, issued, before) ==
    [op |-> "generateSettle", alert |-> alert, input |-> resp,
     issued |-> issued, before |-> before]

\* an answer dropped when a recipe was made current since the call began
GenerateSettleIfIdle(resp) ==
    /\ phase = "ready"
    /\ genPending > 0
    /\ \E j \in 1..Len(genIssued) :
           /\ genIssued' = RemoveAt(genIssued, j)
           /\ LET got == TryRecipe(resp, nextId, now)
                  kept == got.threw \/ ~IsNull(currentRecipe)
              IN  /\ currentRecipe' = IF kept THEN currentRecipe ELSE got.recipe
                  /\ capturedImage' =
                         IF got.threw THEN capturedImage ELSE NoImage
                  /\ nextId' = IF got.threw THEN nextId ELSE nextId + 1
                  /\ last' = Settled(IF got.threw THEN GenerationAlert
                                     ELSE NoAlert,
                                     resp, genIssued[j], currentRecipe)
    /\ isGenerating' = FALSE
    /\ genPending' = genPending - 1
    /\ UNCHANGED <<now, loaded, navVars, visVars, libVars, shopVars, dishVars,
                   isCameraOpen, camPending, liveStreams, cookVars,
                   speechVars>>
    /\ srcObject' = IF VideoMounted /\ VideoMounted' THEN srcObject ELSE "null"
    /\ phase' = Rendered(RenderThrows')

\* generateRecipe from its await on: try, catch, finally
GenerateSettle(resp) ==
    /\ phase = "ready"
    /\ genPending > 0
    /\ \E j \in 1..Len(genIssued) :
           /\ genIssued' = RemoveAt(genIssued, j)
           /\ LET got == TryRecipe(resp, nextId, now)
              IN  /\ currentRecipe' =
                         IF got.threw THEN currentRecipe ELSE got.recipe
                  /\ capturedImage' =
                         IF got.threw THEN capturedImage ELSE NoImage
                  /\ nextId' = IF got.threw THEN nextId ELSE nextId + 1
                  /\ last' = Settled(IF got.threw THEN GenerationAlert
                                     ELSE NoAlert,
                                     resp, genIssued[j], currentRecipe)
    /\ isGenerating' = FALSE
    /\ genPending' = genPending - 1
    /\ UNCHANGED <<now, loaded, navVars, visVars, libVars, shopVars, dishVars,
                   isCameraOpen, camPending, liveStreams, cookVars,
                   speechVars>>
    /\ srcObject' = IF VideoMounted /\ VideoMounted' THEN srcObject ELSE "null"
    /\ phase' = Rendered(RenderThrows')

(* ----------------------------- library --------------------------------- *)
\* savedRecipes.find(r => r.title === title)
FindTitle(recipes, title) ==
    \E i \in 1..Len(recipes) : recipes[i].title = title

\* the duplicate looked up by identifier instead of by title
AddToLibraryById(recipes, recipe) ==
    IF ~(\E i \in 1..Len(recipes) : recipes[i].id = recipe.id)
    THEN <<recipe>> \o recipes
    ELSE recipes

\* the recipe put after the saved ones: [...savedRecipes, currentRecipe]
AddToLibraryLast(recipes, recipe) ==
    IF ~FindTitle(recipes, recipe.title) THEN recipes \o <<recipe>>
    ELSE recipes

\* the Heart button's handler: the collection it leaves
AddToLibrary(recipes, recipe) ==
    IF ~FindTitle(recipes, recipe.title) THEN <<recipe>> \o recipes
    ELSE recipes

\* whether the Heart button's handler calls setSavedRecipes
HeartSets(recipes, recipe) == ~FindTitle(recipes, recipe.title)

HeartClick ==
    /\ UiFree
    /\ view = "kitchen"
    /\ ~IsNull(currentRecipe)
    /\ savedRecipes' = AddToLibrary(savedRecipes, currentRecipe)
    /\ storeRecipes' =
           IF HeartSets(savedRecipes, currentRecipe)
           THEN PersistRecipes(savedRecipes') ELSE storeRecipes
    /\ last' = Event("heart", NoAlert,
                     [recipe |-> currentRecipe, before |-> savedRecipes])
    /\ UNCHANGED <<now, loaded, navVars, genVars, visVars, currentRecipe, shopVars,
                   dishVars, camVars, cookVars, speechVars, nextId>>
    /\ phase' = Rendered(RenderThrows')

\* the filter with its test inverted: r.id === id
FilterKeepId(recipes, id) ==
    SelectSeq(recipes, LAMBDA r : r.id = id)

\* s.filter(r => r.id !== id)
RECURSIVE FilterOutId(_, _)
FilterOutId(recipes, id) ==
    IF recipes = <<>> THEN <<>>
    ELSE IF recipes[1].id # id
         THEN <<recipes[1]>> \o FilterOutId(Tail(recipes), id)
         ELSE FilterOutId(Tail(recipes), id)

\* the Trash button of the i-th card
TrashClick(i) ==
    /\ UiFree
    /\ view = "pantry"
    /\ i \in 1..Len(savedRecipes)
    /\ savedRecipes' = FilterOutId(savedRecipes, savedRecipes[i].id)
    /\ storeRecipes' = PersistRecipes(savedRecipes')
    /\ last' = Event("trash", NoAlert,
                     [id |-> savedRecipes[i].id, before |-> savedRecipes])
    /\ UNCHANGED <<now, loaded, navVars, genVars, visVars, currentRecipe, shopVars,
                   dishVars, camVars, cookVars, speechVars, nextId>>
    /\ phase' = Rendered(RenderThrows')

\* a click on the i-th card
SelectRecipe(i) ==
    /\ UiFree
    /\ view = "pantry"
    /\ i \in 1..Len(savedRecipes)
    /\ currentRecipe' = savedRecipes[i]
    /\ view' = "kitchen"
    /\ last' = Event("select", NoAlert, NoInput)
    /\ UNCHANGED <<now, loaded, prompt, genVars, visVars, libVars, shopVars,
                   dishVars, camVars, cookVars, speechVars, nextId>>
    /\ phase' = Rendered(RenderThrows')

(* --------------------------- manual dishes ----------------------------- *)
OpenAddDish ==
    /\ UiFree
    /\ view = "pantry"
    /\ showAddDishModal' = TRUE
    /\ last' = Event("openAddDish", NoAlert, NoInput)
    /\ UNCHANGED <<now, loaded, navVars, genVars, visVars, currentRecipe, libVars,
                   shopVars, customDish, camVars, cookVars, speechVars, nextId>>
    /\ phase' = Rendered(RenderThrows')

CloseAddDish ==
    /\ phase = "ready"
    /\ showAddDishModal
    /\ showAddDishModal' = FALSE
    /\ last' = Event("closeAddDish", NoAlert, NoInput)
    /\ UNCHANGED <<now, loaded, navVars, genVars, visVars, currentRecipe, libVars,
                   shopVars, customDish, camVars, cookVars, speechVars, nextId>>
    /\ phase' = Rendered(RenderThrows')

SetCustomDish(title) ==
    /\ phase = "ready"
    /\ showAddDishModal
    /\ title # customDish
    /\ customDish' = title
    /\ last' = Event("setCustomDish", NoAlert, NoInput)
    /\ UNCHANGED <<now, loaded, navVars, genVars, visVars, currentRecipe, libVars,
                   shopVars, showAddDishModal, camVars, cookVars, speechVars,
                   nextId>>
    /\ phase' = Rendered(RenderThrows')

\* the recipe addManualDish builds
ManualRecipe(title, id, at) ==
    [id |-> id, title |-> title \o TagSuffix, description |-> "manual",
     ingredients |-> <<>>, instructions |-> Steps(1), prepTime |-> "Manual",
     servings |-> "N/A", nutrition |-> "-", createdAt |-> at]

AddManualDish ==
    /\ phase = "ready"
    /\ showAddDishModal
    /\ customDish # <<>>
    /\ IdsLeft
    /\ savedRecipes' = <<ManualRecipe(customDish, nextId, now)>> \o savedRecipes
    /\ storeRecipes' = PersistRecipes(savedRecipes')
    /\ nextId' = nextId + 1
    /\ customDish' = <<>>
    /\ showAddDishModal' = FALSE
    /\ last' = Event("addManualDish", NoAlert,
                     [title |-> customDish, before |-> savedRecipes])
    /\ UNCHANGED <<now, loaded, navVars, genVars, visVars, currentRecipe,
                   shopVars, camVars, cookVars, speechVars>>
    /\ phase' = Rendered(RenderThrows')

(* ---------------------------- shopping list ---------------------------- *)
SetNewItemText(text) ==
    /\ UiFree
    /\ view = "shopping"
    /\ text # newItemText
    /\ newItemText' = text
    /\ last' = Event("setNewItemText", NoAlert, NoInput)
    /\ UNCHANGED <<now, loaded, navVars, genVars, visVars, currentRecipe, libVars,
                   manualShoppingItems, storeItems, dishVars, camVars,
                   cookVars, speechVars, nextId>>
    /\ phase' = Rendered(RenderThrows')

addShoppingItem ==
    /\ UiFree
    /\ view = "shopping"
    /\ Len(manualShoppingItems) < MaxItems
    /\ IF Trim(newItemText) = <<>>
       THEN UNCHANGED <<manualShoppingItems, newItemText, storeItems>>
       ELSE /\ manualShoppingItems' =
                   Append(manualShoppingItems, Trim(newItemText))
            /\ newItemText' = <<>>
            /\ storeItems' = PersistItems(manualShoppingItems')
    /\ last' = Event("addShoppingItem", NoAlert,
                     [text |-> newItemText, before |-> manualShoppingItems])
    /\ UNCHANGED <<now, loaded, navVars, genVars, visVars, currentRecipe, libVars,
                   dishVars, camVars, cookVars, speechVars, nextId>>
    /\ phase' = Rendered(RenderThrows')

\* the filter on the value at the position: x => x !== items[i]
FilterOutValue(items, i) ==
    SelectSeq(items, LAMBDA x : x # items[i])

\* manualShoppingItems.filter((_, idx) => idx !== i)
FilterOutIndex(items, i) ==
    [k \in 1..(Len(items) - 1) |-> IF k < i THEN items[k] ELSE items[k + 1]]

RemoveShoppingItem(i) ==
    /\ UiFree
    /\ view = "shopping"
    /\ i \in 1..Len(manualShoppingItems)
    /\ manualShoppingItems' = FilterOutIndex(manualShoppingItems, i)
    /\ storeItems' = PersistItems(manualShoppingItems')
    /\ last' = Event("removeShoppingItem", NoAlert,
                     [index |-> i, before |-> manualShoppingItems])
    /\ UNCHANGED <<now, loaded, navVars, genVars, visVars, currentRecipe, libVars,
                   newItemText, dishVars, camVars, cookVars, speechVars,
                   nextId>>
    /\ phase' = Rendered(RenderThrows')

(* --------------------------- illustration ------------------------------ *)
\* the button is rendered only while the recipe has no imageUrl
VisualizeClick ==
    /\ UiFree
    /\ view = "kitchen"
    /\ ~IsNull(currentRecipe)
    /\ ~Has(currentRecipe, "imageUrl")
    /\ ~isVisualizing
    /\ visPending < MaxPending
    /\ isVisualizing' = TRUE
    /\ visPending' = visPending + 1
    /\ visRequested' = Append(visRequested, currentRecipe.id)
    /\ last' = Event("visualize", NoAlert, NoInput)
    /\ UNCHANGED <<now, loaded, navVars, genVars, currentRecipe, libVars, shopVars,
                   dishVars, camVars, cookVars, speechVars, nextId>>
    /\ phase' = Rendered(RenderThrows')

VisualizeOutcomes == {"image", "noImage", "rejected"}

\* the record kept of a settled illustration: how it ended and the recipe
\* whose title the request carried
Illustrated(outcome, id) ==
    [op |-> "visualizeSettle", alert |-> NoAlert, input |-> outcome,
     requestedFor |-> id]

\* the flag cleared in the try block instead of in finally
VisualizeSettleNoFinally(outcome) ==
    /\ phase = "ready"
    /\ visPending > 0
    /\ currentRecipe' =
           IF outcome = "image" /\ ~IsNull(currentRecipe)
           THEN With(currentRecipe, "imageUrl", "data:image")
           ELSE currentRecipe
    /\ isVisualizing' = IF outcome = "rejected" THEN isVisualizing ELSE FALSE
    /\ visPending' = visPending - 1
    /\ \E j \in 1..Len(visRequested) :
           /\ visRequested' = RemoveAt(visRequested, j)
           /\ last' = Illustrated(outcome, visRequested[j])
    /\ UNCHANGED <<now, loaded, navVars, genVars, libVars, shopVars, dishVars,
                   camVars, cookVars, speechVars, nextId>>
    /\ phase' = Rendered(RenderThrows')

\* the image attached to the saved copies of the current recipe as well
VisualizeSettleSaved(outcome) ==
    /\ phase = "ready"
    /\ visPending > 0
    /\ currentRecipe' =
           IF outcome = "image" /\ ~IsNull(currentRecipe)
           THEN With(currentRecipe, "imageUrl", "data:image")
           ELSE currentRecipe
    /\ savedRecipes' =
           IF outcome = "image" /\ ~IsNull(currentRecipe)
           THEN [k \in 1..Len(savedRecipes) |->
                    IF savedRecipes[k].id = currentRecipe.id
                    THEN With(savedRecipes[k], "imageUrl", "data:image")
                    ELSE savedRecipes[k]]
           ELSE savedRecipes
    /\ storeRecipes' = PersistRecipes(savedRecipes')
    /\ isVisualizing' = FALSE
    /\ visPending' = visPending - 1
    /\ \E j \in 1..Len(visRequested) :
           /\ visRequested' = RemoveAt(visRequested, j)
           /\ last' = Illustrated(outcome, visRequested[j])
    /\ UNCHANGED <<now, loaded, navVars, genVars, shopVars, dishVars,
                   camVars, cookVars, speechVars, nextId>>
    /\ phase' = Rendered(RenderThrows')

\* visualizeRecipe from its await on: prev => prev ? {...prev, imageUrl} : null
VisualizeSettle(outcome) ==
    /\ phase = "ready"
    /\ visPending > 0
    /\ currentRecipe' =
           IF outcome = "image" /\ ~IsNull(currentRecipe)
           THEN With(currentRecipe, "imageUrl", "data:image")
           ELSE currentRecipe
    /\ isVisualizing' = FALSE
    /\ visPending' = visPending - 1
    /\ \E j \in 1..Len(visRequested) :
           /\ visRequested' = RemoveAt(visRequested, j)
           /\ last' = Illustrated(outcome, visRequested[j])
    /\ UNCHANGED <<now, loaded, navVars, genVars, libVars, shopVars, dishVars,
                   camVars, cookVars, speechVars, nextId>>
    /\ phase' = Rendered(RenderThrows')

(* ------------------------------ camera --------------------------------- *)
startCamera ==
    /\ UiFree
    /\ view = "kitchen"
    /\ camPending + liveStreams < MaxPending
    /\ isCameraOpen' = TRUE
    /\ capturedImage' = NoImage
    /\ camPending' = camPending + 1
    /\ srcObject' = "null"
    /\ last' = Event("startCamera", NoAlert, NoInput)
    /\ UNCHANGED <<now, loaded, navVars, genVars, visVars, currentRecipe, libVars,
                   shopVars, dishVars, liveStreams, cookVars, speechVars,
                   nextId>>
    /\ phase' = Rendered(RenderThrows')

\* getUserMedia resolves: if (videoRef.current) videoRef.current.srcObject = stream
CameraGranted ==
    /\ phase = "ready"
    /\ camPending > 0
    /\ camPending' = camPending - 1
    /\ liveStreams' = liveStreams + 1
    /\ srcObject' = IF VideoMounted THEN "live" ELSE srcObject
    /\ last' = Event("cameraGranted", NoAlert, NoInput)
    /\ UNCHANGED <<now, loaded, navVars, genVars, visVars, currentRecipe, libVars,
                   shopVars, dishVars, isCameraOpen, capturedImage, cookVars,
                   speechVars, nextId>>
    /\ phase' = Rendered(RenderThrows')

\* getUserMedia rejects
CameraDenied ==
    /\ phase = "ready"
    /\ camPending > 0
    /\ camPending' = camPending - 1
    /\ isCameraOpen' = FALSE
    /\ srcObject' = "null"
    /\ last' = Event("cameraDenied", CameraAlert, NoInput)
    /\ UNCHANGED <<now, loaded, navVars, genVars, visVars, currentRecipe, libVars,
                   shopVars, dishVars, capturedImage, liveStreams, cookVars,
                   speechVars, nextId>>
    /\ phase' = Rendered(RenderThrows')

\* the still is set first; getTracks() on a null srcObject then throws
capturePhoto ==
    /\ phase = "ready"
    /\ IsNull(cookingMode)
    /\ VideoMounted
    /\ capturedImage' = IF srcObject = "live" THEN FrameImage ELSE BlankImage
    /\ liveStreams' = IF srcObject = "live" THEN liveStreams - 1 ELSE liveStreams
    /\ srcObject' = "null"
    /\ last' = Event("capturePhoto", NoAlert, NoInput)
    /\ UNCHANGED <<now, loaded, navVars, genVars, visVars, currentRecipe, libVars,
                   shopVars, dishVars, isCameraOpen, camPending, cookVars,
                   speechVars, nextId>>
    /\ phase' = Rendered(RenderThrows')

Retake ==
    /\ phase = "ready"
    /\ IsNull(cookingMode)
    /\ isCameraOpen
    /\ capturedImage # NoImage
    /\ capturedImage' = NoImage
    /\ last' = Event("retake", NoAlert, NoInput)
    /\ UNCHANGED <<now, loaded, navVars, genVars, visVars, currentRecipe, libVars,
                   shopVars, dishVars, isCameraOpen, camPending, srcObject,
                   liveStreams, cookVars, speechVars, nextId>>
    /\ phase' = Rendered(RenderThrows')

\* Analyze Photo: generateRecipe(capturedImage), whatever isGenerating is
AnalyzePhoto ==
    /\ phase = "ready"
    /\ IsNull(cookingMode)
    /\ isCameraOpen
    /\ capturedImage # NoImage
    /\ GenerateRecipe("analyzePhoto")

\* the overlay's X button
CloseCamera ==
    /\ phase = "ready"
    /\ IsNull(cookingMode)
    /\ isCameraOpen
    /\ isCameraOpen' = FALSE
    /\ srcObject' = "null"
    /\ last' = Event("closeCamera", NoAlert, NoInput)
    /\ UNCHANGED <<now, loaded, navVars, genVars, visVars, currentRecipe, libVars,
                   shopVars, dishVars, capturedImage, camPending, liveStreams,
                   cookVars, speechVars, nextId>>
    /\ phase' = Rendered(RenderThrows')

(* ---------------------------- cooking mode ----------------------------- *)
CookingOpen == phase = "ready" /\ ~IsNull(cookingMode)

\* the Play button: setCookingMode(currentRecipe), and nothing else
PlayClick ==
    /\ UiFree
    /\ view = "kitchen"
    /\ ~IsNull(currentRecipe)
    /\ cookingMode' = currentRecipe
    /\ last' = Event("play", NoAlert, NoInput)
    /\ UNCHANGED <<now, loaded, navVars, genVars, visVars, currentRecipe, libVars,
                   shopVars, dishVars, camVars, currentStep, speechVars,
                   nextId>>
    /\ phase' = Rendered(RenderThrows')

\* the Exit button: setCookingMode(null), and nothing else
ExitCooking ==
    /\ CookingOpen
    /\ cookingMode' = Null
    /\ last' = Event("exit", NoAlert, NoInput)
    /\ UNCHANGED <<now, loaded, navVars, genVars, visVars, currentRecipe, libVars,
                   shopVars, dishVars, camVars, currentStep, speechVars,
                   nextId>>
    /\ phase' = Rendered(RenderThrows')

\* disabled={currentStep === 0}
PrevStep ==
    /\ CookingOpen
    /\ currentStep # 0
    /\ currentStep' = currentStep - 1
    /\ isSpeaking' = FALSE
    /\ last' = Event("prev", NoAlert, NoInput)
    /\ UNCHANGED <<now, loaded, navVars, genVars, visVars, currentRecipe, libVars,
                   shopVars, dishVars, camVars, cookingMode, narrations,
                   nextId>>
    /\ phase' = Rendered(RenderThrows')

\* disabled={currentStep === cookingMode.instructions.length - 1}
NextStep ==
    /\ CookingOpen
    /\ currentStep # NSteps(cookingMode) - 1
    /\ currentStep < MaxStepIndex
    /\ currentStep' = currentStep + 1
    /\ isSpeaking' = FALSE
    /\ last' = Event("next", NoAlert, NoInput)
    /\ UNCHANGED <<now, loaded, navVars, genVars, visVars, currentRecipe, libVars,
                   shopVars, dishVars, camVars, cookingMode, narrations,
                   nextId>>
    /\ phase' = Rendered(RenderThrows')

(* ----------------------------- narration ------------------------------- *)
\* speakStep without its first line
speakStepUnguarded ==
    /\ CookingOpen
    /\ Len(narrations) < MaxNarrations
    /\ isSpeaking' = TRUE
    /\ narrations' = Append(narrations, "pending")
    /\ last' = Event("speakStep", NoAlert, isSpeaking)
    /\ UNCHANGED <<now, loaded, navVars, genVars, visVars, currentRecipe, libVars,
                   shopVars, dishVars, camVars, cookVars, nextId>>
    /\ phase' = Rendered(RenderThrows')

\* speakStep up to its await: if (isSpeaking) return; setIsSpeaking(true)
speakStep ==
    /\ CookingOpen
    /\ isSpeaking \/ Len(narrations) < MaxNarrations
    /\ IF isSpeaking
       THEN UNCHANGED <<isSpeaking, narrations>>
       ELSE /\ isSpeaking' = TRUE
            /\ narrations' = Append(narrations, "pending")
    /\ last' = Event("speakStep", NoAlert, isSpeaking)
    /\ UNCHANGED <<now, loaded, navVars, genVars, visVars, currentRecipe, libVars,
                   shopVars, dishVars, camVars, cookVars, nextId>>
    /\ phase' = Rendered(RenderThrows')

SpeechOutcomes == {"audio", "noAudio", "failed"}

\* speakStep from its await on, for the i-th narration in flight
SpeechSettle(i, outcome) ==
    /\ phase = "ready"
    /\ i \in 1..Len(narrations)
    /\ narrations[i] = "pending"
    /\ IF outcome = "audio"
       THEN /\ narrations' = [narrations EXCEPT ![i] = "playing"]
            /\ UNCHANGED isSpeaking
       ELSE /\ narrations' = RemoveAt(narrations, i)
            /\ isSpeaking' = FALSE
    /\ last' = Event("speechSettle", NoAlert, outcome)
    /\ UNCHANGED <<now, loaded, navVars, genVars, visVars, currentRecipe, libVars,
                   shopVars, dishVars, camVars, cookVars, nextId>>
    /\ phase' = Rendered(RenderThrows')

\* the audio ends and no handler was set on the source
PlaybackEndedKeepsFlag(i) ==
    /\ phase = "ready"
    /\ i \in 1..Len(narrations)
    /\ narrations[i] = "playing"
    /\ narrations' = RemoveAt(narrations, i)
    /\ last' = Event("playbackEnded", NoAlert, i)
    /\ UNCHANGED <<now, loaded, navVars, genVars, visVars, currentRecipe, libVars,
                   shopVars, dishVars, camVars, cookVars, isSpeaking, nextId>>
    /\ phase' = Rendered(RenderThrows')

\* source.onended = () => setIsSpeaking(false)
PlaybackEnded(i) ==
    /\ phase = "ready"
    /\ i \in 1..Len(narrations)
    /\ narrations[i] = "playing"
    /\ narrations' = RemoveAt(narrations, i)
    /\ isSpeaking' = FALSE
    /\ last' = Event("playbackEnded", NoAlert, i)
    /\ UNCHANGED <<now, loaded, navVars, genVars, visVars, currentRecipe, libVars,
                   shopVars, dishVars, camVars, cookVars, nextId>>
    /\ phase' = Rendered(RenderThrows')

(* --------------------------- specifications ---------------------------- *)
\* the whole component
Next ==
    \/ MountEffects
    \/ StartupCommit
    \/ Tick
    \/ \E v \in {"kitchen", "pantry", "shopping"} : SetView(v)
    \/ \E p \in Prompts : SetPrompt(p)
    \/ GenerateClick
    \/ \E resp \in Responses : GenerateSettle(resp)
    \/ HeartClick
    \/ \E i \in 1..Len(savedRecipes) : TrashClick(i)
    \/ \E i \in 1..Len(savedRecipes) : SelectRecipe(i)
    \/ OpenAddDish
    \/ CloseAddDish
    \/ \E t \in DishTitles : SetCustomDish(t)
    \/ AddManualDish
    \/ \E t \in ItemTexts : SetNewItemText(t)
    \/ addShoppingItem
    \/ \E i \in 1..Len(manualShoppingItems) : RemoveShoppingItem(i)
    \/ VisualizeClick
    \/ \E o \in VisualizeOutcomes : VisualizeSettle(o)
    \/ startCamera
    \/ CameraGranted
    \/ CameraDenied
    \/ capturePhoto
    \/ Retake
    \/ AnalyzePhoto
    \/ CloseCamera
    \/ PlayClick
    \/ ExitCooking
    \/ PrevStep
    \/ NextStep
    \/ speakStep
    \/ \E i \in 1..Len(narrations), o \in SpeechOutcomes : SpeechSettle(i, o)
    \/ \E i \in 1..Len(narrations) : PlaybackEnded(i)

Spec == Init /\ [][Next]_vars

(* The component's state is a product of independent parts; each of the    *)
(* specifications below runs the handlers that write the part its claims   *)
(* read, from the initial states that matter to them.                      *)

EmptyStore == storeRecipes = Absent /\ storeItems = Absent

\* answers with one and with two instruction steps, and a failure
CookingResponses ==
    {Answer(<<ValTok(FullData(Ramen, 2))>>),
     Answer(<<ValTok(FullData(Stew, 1))>>), Rejected}

\* cooking mode and narration, on recipes the generation produced
InitCooking == Init /\ EmptyStore

NextCooking ==
    \/ MountEffects
    \/ StartupCommit
    \/ \E p \in Prompts : SetPrompt(p)
    \/ GenerateClick
    \/ \E resp \in CookingResponses : GenerateSettle(resp)
    \/ PlayClick
    \/ ExitCooking
    \/ PrevStep
    \/ NextStep
    \/ speakStep
    \/ \E i \in 1..Len(narrations), o \in SpeechOutcomes : SpeechSettle(i, o)
    \/ \E i \in 1..Len(narrations) : PlaybackEnded(i)

SpecCooking == InitCooking /\ [][NextCooking]_vars

\* the speech service answers or fails in the end, and audio that started
\* ends
SpeechResponds ==
    WF_vars(\E i \in 1..Len(narrations), o \in SpeechOutcomes :
                SpeechSettle(i, o))

PlaybackEnds == WF_vars(\E i \in 1..Len(narrations) : PlaybackEnded(i))

SpecNarration ==
    InitCooking /\ [][NextCooking]_vars /\ SpeechResponds /\ PlaybackEnds

\* generation from the prompt and from the camera, with every answer
InitGeneration == Init /\ EmptyStore

NextGeneration ==
    \/ MountEffects
    \/ StartupCommit
    \/ \E v \in {"kitchen", "pantry", "shopping"} : SetView(v)
    \/ \E p \in Prompts : SetPrompt(p)
    \/ GenerateClick
    \/ \E resp \in Responses : GenerateSettle(resp)
    \/ startCamera
    \/ CameraGranted
    \/ CameraDenied
    \/ capturePhoto
    \/ Retake
    \/ AnalyzePhoto
    \/ CloseCamera

SpecGeneration == InitGeneration /\ [][NextGeneration]_vars

\* answers that make recipes of equal and of different titles, and a failure
LibraryResponses ==
    {Answer(<<ValTok(FullData(Ramen, 2))>>),
     Answer(<<ValTok(FullData(RamenTagged, 1))>>),
     Answer(<<ValTok(FullData(Stew, 1))>>), Rejected}

\* the saved collection: generated, stored and manual recipes
InitLibrary == Init /\ storeItems = Absent

NextLibrary ==
    \/ MountEffects
    \/ StartupCommit
    \/ \E v \in {"kitchen", "pantry", "shopping"} : SetView(v)
    \/ \E p \in Prompts : SetPrompt(p)
    \/ GenerateClick
    \/ \E resp \in LibraryResponses : GenerateSettle(resp)
    \/ HeartClick
    \/ \E i \in 1..Len(savedRecipes) : TrashClick(i)
    \/ \E i \in 1..Len(savedRecipes) : SelectRecipe(i)
    \/ OpenAddDish
    \/ CloseAddDish
    \/ \E t \in DishTitles : SetCustomDish(t)
    \/ AddManualDish

SpecLibrary == InitLibrary /\ [][NextLibrary]_vars

\* the saved collection of a first session: nothing in the store
InitLibraryFresh == Init /\ EmptyStore

SpecLibraryFresh == InitLibraryFresh /\ [][NextLibrary]_vars

\* what is typed there: one dish title, two items
PersistenceDishTitles == {<<>>, Stew}
PersistenceItemTexts == {<<"Milk">>, <<" ", "Eggs", " ">>}

\* both collections and the store, from every initial store; the current
\* recipe comes from the library
NextPersistence ==
    \/ MountEffects
    \/ StartupCommit
    \/ \E v \in {"kitchen", "pantry", "shopping"} : SetView(v)
    \/ HeartClick
    \/ \E i \in 1..Len(savedRecipes) : TrashClick(i)
    \/ \E i \in 1..Len(savedRecipes) : SelectRecipe(i)
    \/ OpenAddDish
    \/ CloseAddDish
    \/ \E t \in PersistenceDishTitles : SetCustomDish(t)
    \/ AddManualDish
    \/ \E t \in PersistenceItemTexts : SetNewItemText(t)
    \/ addShoppingItem
    \/ \E i \in 1..Len(manualShoppingItems) : RemoveShoppingItem(i)

SpecPersistence == Init /\ [][NextPersistence]_vars

\* the shopping list alone, from an empty store and from a saved list
InitShopping ==
    /\ Init
    /\ storeRecipes = Absent
    /\ storeItems \in {Absent, Item(JSONstringify(StoredShoppingList))}

NextShopping ==
    \/ MountEffects
    \/ StartupCommit
    \/ \E v \in {"kitchen", "pantry", "shopping"} : SetView(v)
    \/ \E t \in ItemTexts : SetNewItemText(t)
    \/ addShoppingItem
    \/ \E i \in 1..Len(manualShoppingItems) : RemoveShoppingItem(i)

SpecShopping == InitShopping /\ [][NextShopping]_vars

\* answers that make recipes of different titles, and a failure
IllustrationResponses ==
    {Answer(<<ValTok(FullData(Ramen, 1))>>),
     Answer(<<ValTok(FullData(Stew, 1))>>), Rejected}

\* illustration of the current recipe, beside saving, removing and selecting
InitIllustration == Init /\ storeItems = Absent

NextIllustration ==
    \/ MountEffects
    \/ StartupCommit
    \/ \E v \in {"kitchen", "pantry", "shopping"} : SetView(v)
    \/ \E p \in Prompts : SetPrompt(p)
    \/ GenerateClick
    \/ \E resp \in IllustrationResponses : GenerateSettle(resp)
    \/ HeartClick
    \/ \E i \in 1..Len(savedRecipes) : TrashClick(i)
    \/ \E i \in 1..Len(savedRecipes) : SelectRecipe(i)
    \/ VisualizeClick
    \/ \E o \in VisualizeOutcomes : VisualizeSettle(o)

SpecIllustration == InitIllustration /\ [][NextIllustration]_vars

\* an answer without and one with an identifier of its own, and a failure
IdentityResponses ==
    {Answer(<<ValTok(FullData(Ramen, 1))>>),
     Answer(<<ValTok(ForeignIdObject)>>), Rejected}

\* recipes created by generation (from the prompt and from a photo) and by
\* hand while time passes, beside a recipe of a previous session
InitIdentity ==
    /\ Init
    /\ storeItems = Absent
    /\ storeRecipes \in {Absent, Item(JSONstringify(<<StoredA>>))}

NextIdentity ==
    \/ MountEffects
    \/ StartupCommit
    \/ Tick
    \/ \E v \in {"kitchen", "pantry"} : SetView(v)
    \/ \E p \in Prompts : SetPrompt(p)
    \/ GenerateClick
    \/ \E resp \in IdentityResponses : GenerateSettle(resp)
    \/ startCamera
    \/ capturePhoto
    \/ AnalyzePhoto
    \/ HeartClick
    \/ OpenAddDish
    \/ \E t \in PersistenceDishTitles : SetCustomDish(t)
    \/ AddManualDish

SpecIdentity == InitIdentity /\ [][NextIdentity]_vars

\* a request in flight while the user changes view, uses the camera overlay
\* and selects recipes a previous session saved
NextInFlight ==
    \/ MountEffects
    \/ StartupCommit
    \/ \E v \in {"kitchen", "pantry", "shopping"} : SetView(v)
    \/ \E p \in Prompts : SetPrompt(p)
    \/ GenerateClick
    \/ \E resp \in CookingResponses : GenerateSettle(resp)
    \/ \E i \in 1..Len(savedRecipes) : SelectRecipe(i)
    \/ startCamera
    \/ CameraGranted
    \/ CameraDenied
    \/ capturePhoto
    \/ Retake
    \/ AnalyzePhoto
    \/ CloseCamera

SpecInFlight == InitLibrary /\ [][NextInFlight]_vars

\* the shopping list of a first session: nothing in the store
InitShoppingFresh == Init /\ EmptyStore

SpecShoppingFresh == InitShoppingFresh /\ [][NextShopping]_vars

(* ------------------------------- claims -------------------------------- *)

(* C1: while cooking mode is open for a recipe of N steps, the step index  *)
(* is within 0..N-1, whatever came before (and the buttons at the two ends *)
(* are disabled, so they do not move it).                                  *)
C1_StepIndexInRange ==
    CookingOpen =>
        /\ 0 <= currentStep
        /\ currentStep <= NSteps(cookingMode) - 1

(* C2: whenever cooking mode is entered, the step index is 0 right after,  *)
(* also when it was left at a later step: exit discards the position.      *)
C2_EnterResetsStep ==
    [][(IsNull(cookingMode) /\ ~IsNull(cookingMode')) => currentStep' = 0]_vars

(* C3: at most one narration is active (request pending or audio playing)  *)
(* at any time.                                                            *)
C3_OneNarration == Len(narrations) <= 1

(* C4: a speakStep call made while the speaking flag is set is rejected:   *)
(* it issues no request, starts no audio and leaves the flag and the       *)
(* narrations in flight as they were.                                      *)
C4_RejectedWhileSpeaking ==
    [][(isSpeaking /\ last'.op = "speakStep")
          => (narrations' = narrations /\ isSpeaking' = isSpeaking)]_vars

\* a call was just rejected while a narration was playing
C4_Witness ==
    /\ last.op = "speakStep"
    /\ last.input = TRUE
    /\ isSpeaking
    /\ narrations = <<"playing">>

(* C5: at most one recipe-generation request is in flight at any time,     *)
(* whatever the user clicks (Generate, Scan Ingredients, capture, Analyze  *)
(* Photo).                                                                 *)
C5_OneGeneration == genPending <= 1

\* the current recipe carries exactly the fields of the response's object
BuiltFrom(recipe, resp) ==
    /\ ~IsNull(recipe)
    /\ resp.kind = "text"
    /\ LET parsed == JSONparse(TextOrEmptyObject(resp.text))
       IN  /\ parsed.ok
           /\ DOMAIN recipe = DOMAIN parsed.v \cup {"id", "title", "createdAt"}

(* C6: when the request fails, the answer does not parse or the parsed     *)
(* answer lacks a required field, generateRecipe ends in the error         *)
(* outcome: the alert is shown, no recipe built from that answer becomes   *)
(* current, and the loading flag is cleared.                               *)
C6_BadAnswerIsAnError ==
    (last.op = "generateSettle" /\ last.input \in BadResponses) =>
        /\ last.alert = GenerationAlert
        /\ ~BuiltFrom(currentRecipe, last.input)
        /\ ~isGenerating

(* C7: add-to-library of the current recipe is a no-op when a saved        *)
(* recipe has exactly its title; otherwise the collection grows by that    *)
(* one recipe and nothing else changes in it.                              *)
C7_AddToLibrary ==
    last.op = "heart" =>
        LET before == last.input.before
            recipe == last.input.recipe
        IN  IF \E i \in 1..Len(before) : before[i].title = recipe.title
            THEN savedRecipes = before
            ELSE /\ Len(savedRecipes) = Len(before) + 1
                 /\ \E k \in 1..Len(savedRecipes) :
                        /\ savedRecipes[k] = recipe
                        /\ RemoveAt(savedRecipes, k) = before

\* the no-op case: another recipe of the same title was already saved
C7_Witness ==
    /\ last.op = "heart"
    /\ \E i \in 1..Len(last.input.before) :
           /\ last.input.before[i].title = last.input.recipe.title
           /\ last.input.before[i].id # last.input.recipe.id
    /\ savedRecipes = last.input.before
    /\ Len(savedRecipes) >= 2

\* every identifier a recipe can carry
KnownIds == (1..MaxIds) \cup {StoredA.id, StoredB.id}

\* the store read back: the collection under a key, if it parses
ReadsBack(item, collection) ==
    /\ item.present
    /\ JSONparse(item.text) = [ok |-> TRUE, v |-> collection]

(* C8: remove-from-library by identifier removes exactly one entry when    *)
(* the identifier is present and none when it is absent, keeps the other   *)
(* entries and their order, and the store then holds the new collection.   *)
C8_RemoveFromLibrary ==
    /\ \A id \in KnownIds :
           (\A i \in 1..Len(savedRecipes) : savedRecipes[i].id # id)
               => FilterOutId(savedRecipes, id) = savedRecipes
    /\ last.op = "trash" =>
           /\ \E k \in 1..Len(last.input.before) :
                  /\ last.input.before[k].id = last.input.id
                  /\ savedRecipes = RemoveAt(last.input.before, k)
           /\ ReadsBack(storeRecipes, savedRecipes)

\* the second of three saved recipes was just removed
C8_Witness ==
    /\ last.op = "trash"
    /\ Len(last.input.before) = 3
    /\ last.input.before[2].id = last.input.id
    /\ Len(savedRecipes) = 2

(* C9: startup is a round trip: when the store held the serialization of   *)
(* a collection, the in-memory collection equals it afterwards and the     *)
(* store still holds it; an unparseable text gives an empty collection and *)
(* startup still completes.  Likewise for the shopping list.               *)
C9_StartupRoundTrip ==
    last.op = "startup" =>
        /\ phase = "ready"
        /\ \A c \in StoredCollections :
               last.input.recipes = Item(JSONstringify(c))
                   => savedRecipes = c /\ storeRecipes = last.input.recipes
        /\ (last.input.recipes.present /\ ~JSONparse(last.input.recipes.text).ok)
               => savedRecipes = <<>>
        /\ \A l \in StoredLists :
               last.input.items = Item(JSONstringify(l))
                   => manualShoppingItems = l /\ storeItems = last.input.items
        /\ (last.input.items.present /\ ~JSONparse(last.input.items.text).ok)
               => manualShoppingItems = <<>>

\* two stored recipes came back in order, beside a corrupt shopping list
C9_Witness ==
    /\ last.op = "startup"
    /\ savedRecipes = <<StoredB, StoredA>>
    /\ last.input.items.present
    /\ ~JSONparse(last.input.items.text).ok
    /\ manualShoppingItems = <<>>

(* C10: once the persistence effects have run, each key of the store holds *)
(* the serialization of its in-memory collection, after every mutation of  *)
(* either collection.                                                      *)
C10_StoreMirrorsState ==
    phase \in {"mounted", "ready"} =>
        /\ storeRecipes = Item(JSONstringify(savedRecipes))
        /\ ReadsBack(storeRecipes, savedRecipes)
        /\ storeItems = Item(JSONstringify(manualShoppingItems))
        /\ ReadsBack(storeItems, manualShoppingItems)

\* a shopping item was just added while the library held a manual dish
C10_Witness ==
    /\ last.op = "addShoppingItem"
    /\ Len(manualShoppingItems) = 2
    /\ \E i \in 1..Len(savedRecipes) : savedRecipes[i].id = 1

(* C11: removing the shopping item at position i deletes exactly the       *)
(* element at that position and keeps every other element, in order, also  *)
(* when the same text is in the list more than once; "Milk", "Eggs" with   *)
(* the first position removed leaves "Eggs".                               *)
C11_RemoveAtPosition ==
    last.op = "removeShoppingItem" =>
        LET before == last.input.before
            i == last.input.index
        IN  /\ Len(manualShoppingItems) = Len(before) - 1
            /\ \A k \in 1..(i - 1) : manualShoppingItems[k] = before[k]
            /\ \A k \in i..(Len(before) - 1) :
                   manualShoppingItems[k] = before[k + 1]
            /\ (before = <<<<"Milk">>, <<"Eggs">>>> /\ i = 1)
                   => manualShoppingItems = <<<<"Eggs">>>>

\* one of two equal texts was just removed: the other one is still there
C11_Witness ==
    /\ last.op = "removeShoppingItem"
    /\ last.input.before = StoredShoppingList
    /\ last.input.index = 1
    /\ manualShoppingItems = <<<<"Eggs">>, <<"Milk">>>>

\* a run of n white-space fragments
Spaces(n) == [k \in 1..n |-> " "]

\* a text with nothing to trim at either end, and not empty
IsTrimmed(t) == t # <<>> /\ Head(t) # " " /\ t[Len(t)] # " "

(* C12: add-shopping-item appends the trimmed input at the end of the list *)
(* when the trimmed input is not empty and leaves the list as it was when  *)
(* the input is empty or white space only; from an empty store no list     *)
(* ever holds an empty or untrimmed text.                                  *)
C12_AddTrimmedItem ==
    /\ \A k \in 1..Len(manualShoppingItems) : IsTrimmed(manualShoppingItems[k])
    /\ last.op = "addShoppingItem" =>
           LET before == last.input.before
               text == last.input.text
           IN  IF \A k \in 1..Len(text) : text[k] = " "
               THEN manualShoppingItems = before
               ELSE /\ Len(manualShoppingItems) = Len(before) + 1
                    /\ SubSeq(manualShoppingItems, 1, Len(before)) = before
                    /\ \E a, b \in 0..Len(text) :
                           text = Spaces(a)
                                  \o manualShoppingItems[Len(manualShoppingItems)]
                                  \o Spaces(b)

\* " Eggs " was just added after "Milk", as "Eggs"
C12_Witness ==
    /\ last.op = "addShoppingItem"
    /\ last.input.text = <<" ", "Eggs", " ">>
    /\ last.input.before = <<<<"Milk">>>>
    /\ manualShoppingItems = <<<<"Milk">>, <<"Eggs">>>>

(* C13: an illustration that arrives changes the current recipe only: the  *)
(* saved collection and the store, a saved copy of the same recipe         *)
(* included, are what they were before, however the request interleaves    *)
(* with saving, removing and selecting.                                    *)
C13_IllustrationLeavesLibrary ==
    [][last'.op = "visualizeSettle"
          => (savedRecipes' = savedRecipes /\ storeRecipes' = storeRecipes)]_vars

\* the image was just attached while a copy saved earlier has none
C13_Witness ==
    /\ last.op = "visualizeSettle"
    /\ last.input = "image"
    /\ ~IsNull(currentRecipe)
    /\ Has(currentRecipe, "imageUrl")
    /\ \E i \in 1..Len(savedRecipes) :
           /\ savedRecipes[i].id = currentRecipe.id
           /\ ~Has(savedRecipes[i], "imageUrl")

\* the recipes the component holds
HeldRecipes ==
    ({currentRecipe, cookingMode} \ {Null})
    \cup {savedRecipes[i] : i \in 1..Len(savedRecipes)}

\* the identifiers drawn so far, in this session and in earlier ones
DrawnIds == (1..(nextId - 1)) \cup {StoredA.id, StoredB.id}

(* C14: a recipe made from a successful generation response gets an        *)
(* identifier that no recipe created before carries (generated or manual,  *)
(* current or saved: every recipe held carries a drawn identifier, and the *)
(* new one was not drawn before), whatever id the response holds, and a    *)
(* creation timestamp not earlier than the time its request was issued.    *)
C14_FreshIdAndTimestamp ==
    /\ [](\A r \in HeldRecipes : r.id \in DrawnIds)
    /\ [][(last'.op = "generateSettle" /\ last'.alert = NoAlert)
             => /\ currentRecipe'.id >= 1
                /\ currentRecipe'.id \notin DrawnIds
                /\ currentRecipe'.id \in DrawnIds'
                /\ currentRecipe'.createdAt >= last'.issued]_vars

\* the answer carried the identifier of a stored recipe; the recipe made
\* from it, after a manual dish and some time, carries a new one
C14_Witness ==
    /\ last.op = "generateSettle"
    /\ last.alert = NoAlert
    /\ last.input = Answer(<<ValTok(ForeignIdObject)>>)
    /\ currentRecipe.id = 2
    /\ currentRecipe.createdAt > last.issued
    /\ savedRecipes = <<ManualRecipe(Stew, 1, 1), StoredA>>

(* C15: every recipe that generateRecipe makes current from an answer that *)
(* parses and carries the required fields has at least one instruction     *)
(* step.                                                                   *)
C15_InstructionsNonEmpty ==
    (/\ last.op = "generateSettle"
     /\ last.alert = NoAlert
     /\ last.input \in GoodResponses)
        => NSteps(currentRecipe) >= 1

(* C16: when a generation request completes, by success or by failure, the *)
(* camera overlay is closed and the captured still is null.                *)
C16_CameraClearedOnCompletion ==
    last.op = "generateSettle" =>
        /\ ~isCameraOpen
        /\ capturedImage = NoImage

(* C17: when the speech service answers or fails in the end and audio that *)
(* started ends, a set speaking flag is always cleared later: on the end   *)
(* of playback, on an answer without audio and on any failure.             *)
C17_SpeakingClears == isSpeaking ~> ~isSpeaking

\* a narration played to its end and cleared the flag: the next may begin
C17_Witness ==
    /\ last.op = "playbackEnded"
    /\ ~isSpeaking
    /\ narrations = <<>>
    /\ CookingOpen

(* C18: when an illustration request fails or its answer holds no image,   *)
(* the current recipe is what it was (no image is attached) and no alert   *)
(* is shown; after every illustration request, failed or not, the          *)
(* visualizing flag is false.                                              *)
C18_IllustrationFailureIsSilent ==
    [][last'.op = "visualizeSettle"
          => /\ ~isVisualizing'
             /\ last'.alert = NoAlert
             /\ last'.input # "image" => currentRecipe' = currentRecipe]_vars

\* a request was just rejected: the recipe has no image, the flag is down
C18_Witness ==
    /\ last.op = "visualizeSettle"
    /\ last.input = "rejected"
    /\ ~IsNull(currentRecipe)
    /\ ~Has(currentRecipe, "imageUrl")
    /\ ~isVisualizing

(* C19: a generation request, once started, is never cancelled: only its   *)
(* own completion ends it, and when its answer is a recipe, that recipe    *)
(* becomes the current one whatever the user did meanwhile (another view,  *)
(* the camera overlay closed, a saved recipe selected): what was current   *)
(* is replaced.                                                            *)
C19_NeverCancelled ==
    [][/\ genPending' < genPending => last'.op = "generateSettle"
       /\ (last'.op = "generateSettle" /\ last'.input \in GoodResponses)
             => /\ last'.alert = NoAlert
                /\ currentRecipe'.id = nextId
                /\ currentRecipe' # last'.before
                /\ \A f \in RequiredFields \ {"title"} :
                       currentRecipe'[f] = last'.input.text[1].v[f]]_vars

\* the answer replaced a recipe selected from the library while the request
\* was in flight, in another view than the one it was started from
C19_Witness ==
    /\ last.op = "generateSettle"
    /\ last.alert = NoAlert
    /\ last.before = StoredA
    /\ currentRecipe.id = 1
    /\ currentRecipe.title = Stew \o TagSuffix
    /\ view = "shopping"

(* C20: once a still is captured the media stream is stopped and stays     *)
(* stopped: while a captured still exists no stream is active (retake      *)
(* discards the still and starts no stream).                               *)
C20_NoStreamWhileStill ==
    capturedImage # NoImage => liveStreams = 0

\* a recipe was just added to the collection, by the Heart button or by
\* manual entry
JustAdded ==
    \/ /\ last.op = "heart"
       /\ ~FindTitle(last.input.before, last.input.recipe.title)
    \/ last.op = "addManualDish"

(* C21 as stated: a recipe added to the library, by add-to-library or by   *)
(* manual dish entry, is the last element of the saved collection and the  *)
(* entries before it are the earlier ones, in place.                       *)
C21_AddedLast ==
    JustAdded =>
        /\ Len(savedRecipes) = Len(last.input.before) + 1
        /\ SubSeq(savedRecipes, 1, Len(last.input.before)) = last.input.before
        /\ last.op = "heart"
               => savedRecipes[Len(savedRecipes)] = last.input.recipe
        /\ last.op = "addManualDish"
               => savedRecipes[Len(savedRecipes)].title
                      = last.input.title \o TagSuffix

(* C21 as amended: a recipe added to the library, by add-to-library or by  *)
(* manual dish entry, is the first element of the saved collection, the    *)
(* earlier entries follow it in their order, and it is the recipe that was *)
(* current, or the manual dish of the title entered.                       *)
C21_AddedFirst ==
    JustAdded =>
        /\ Len(savedRecipes) = Len(last.input.before) + 1
        /\ Tail(savedRecipes) = last.input.before
        /\ last.op = "heart" => Head(savedRecipes) = last.input.recipe
        /\ last.op = "addManualDish"
               => Head(savedRecipes).title = last.input.title \o TagSuffix

\* the current recipe was just put in front of two stored ones
C21_Witness ==
    /\ last.op = "heart"
    /\ last.input.before = <<StoredB, StoredA>>
    /\ Len(savedRecipes) = 3
    /\ savedRecipes[1].id = 1

(* C22: from an empty store, no saved collection ever holds two recipes of *)
(* the same title, whatever is generated, added, entered by hand and       *)
(* removed.                                                                *)
C22_UniqueTitles ==
    \A i, j \in 1..Len(savedRecipes) :
        savedRecipes[i].title = savedRecipes[j].title => i = j

(* C23: an illustration is attached only to the recipe it was requested    *)
(* for: the recipe that receives the image carries the identifier of the   *)
(* recipe that was current when the request was issued, also when another  *)
(* recipe was selected or generated meanwhile.                             *)
C23_IllustrationOnItsRecipe ==
    (/\ last.op = "visualizeSettle"
     /\ last.input = "image"
     /\ ~IsNull(currentRecipe))
        => currentRecipe.id = last.requestedFor

(* C24: the speaking flag set by a narration is not cleared by the end of  *)
(* an earlier narration's playback: while the flag is set it belongs to    *)
(* the narration started last, and when the audio of another one ends the  *)
(* flag stays set.                                                         *)
C24_StaleEndKeepsFlag ==
    [][(/\ last'.op = "playbackEnded"
        /\ isSpeaking
        /\ last'.input # Len(narrations))
          => isSpeaking']_vars

(* C25: no camera media stream is active while the camera overlay is       *)
(* closed: every stream acquired has been stopped by then, also one        *)
(* granted after the overlay was closed.                                   *)
C25_NoStreamWhileClosed ==
    ~isCameraOpen => liveStreams = 0

\* the recipes the store holds: the elements of the collection its text
\* parses to, none when it holds no such text
StoredRecipes(item) ==
    IF item.present /\ JSONparse(item.text).ok
    THEN LET collection == JSONparse(item.text).v
         IN  {collection[k] : k \in 1..Len(collection)}
    ELSE {}

(* C26: the store never loses a saved recipe except through an explicit    *)
(* removal by the user: in every step, the steps of startup included, a    *)
(* recipe the store holds is still held afterwards unless the step is the  *)
(* removal of that recipe.                                                 *)
C26_StoreKeepsRecipes ==
    [][\A r \in StoredRecipes(storeRecipes) :
           \/ r \in StoredRecipes(storeRecipes')
           \/ last'.op = "trash" /\ last'.input.id = r.id]_vars
====
